---- MODULE Spec2Model ----
(***************************************************************************)
(* Model of docs/conf.py, the Sphinx configuration module of lancedb-c.    *)
(*                                                                         *)
(* The module is a straight-line sequence of module-level statements that  *)
(* the documentation generator executes top to bottom in a fresh namespace *)
(* each time it loads the configuration.  The only input is the process    *)
(* environment (os.environ), read once by the xml_dir statement.           *)
(*                                                                         *)
(* Python values are modelled as follows: str -> TLA+ string, list and     *)
(* tuple -> sequence, dict -> function on its keys, bool -> BOOLEAN,       *)
(* int -> Int, None -> the record None.  The process environment is the    *)
(* set of its <<name, value>> entries.                                     *)
(***************************************************************************)
EXTENDS Integers, Sequences, FiniteSets, TLC

VARIABLES
    environ,    \* os.environ: set of <<name, value>> entries of the process
    pc,         \* next statement of conf.py to execute ("idle": never loaded,
                \* "done": end of file reached)
    loads       \* one record per execution of conf.py in this process:
                \* environ at its start, module namespace, order of bindings

vars == <<environ, pc, loads>>

\* ---------------------------------------------------------------- bounds

\* Number of times the configuration is loaded in one process.
MaxLoads == 3

\* Values the build driver may give DOXYGEN_XML_DIR: empty, padded with
\* whitespace, equal to the default, and an absolute path.
EnvValues == {"", " build/xml ", "../xml", "/opt/doxygen/xml"}

\* ------------------------------------------------------- Python values

None == [type |-> "NoneType"]

EmptyNamespace == [n \in {} |-> None]

\* The names conf.py binds for the documentation generator.
Fields ==
    {"project", "copyright", "author", "release", "extensions", "xml_dir",
     "breathe_projects", "breathe_default_project", "templates_path",
     "exclude_patterns", "html_theme", "html_static_path",
     "html_theme_options", "intersphinx_mapping"}

\* The possible states of the one variable conf.py reads: unset, or set to V.
EnvStates == {{}} \cup {{<<"DOXYGEN_XML_DIR", v>>} : v \in EnvValues}

\* ------------------------------------------------- the current execution

Cur == loads[Len(loads)]

CurNs == Cur.ns

\* Execution i of conf.py has run to its end.
Completed(i) == i \in 1..Len(loads) /\ (i < Len(loads) \/ pc = "done")

\* --------------------------------------------------------- os.environ.get

\* Mutant: `os.environ.get(key) or default` - a falsy (empty) value falls
\* back to the default.
environ_get_or(env, key, default) ==
    IF \E e \in env : e[1] = key /\ e[2] # ""
    THEN (CHOOSE e \in env : e[1] = key)[2]
    ELSE default

\* os.environ.get(key, default): the value of the entry named key when there
\* is one, whatever it is; default otherwise.
environ_get(env, key, default) ==
    IF \E e \in env : e[1] = key
    THEN (CHOOSE e \in env : e[1] = key)[2]
    ELSE default

\* ------------------------------------- right-hand sides of the statements

project == "LanceDB C API"

copyright == "2025, The LanceDB Authors"

\* Mutant: the author string left blank.
author_blank == ""

author == "The LanceDB Authors"

release == "0.1.0"

\* Mutant: an extension listed twice.
extensions_dup ==
    <<"breathe", "sphinx.ext.autodoc", "sphinx.ext.intersphinx",
      "sphinx.ext.autodoc">>

extensions ==
    <<"breathe", "sphinx.ext.autodoc", "sphinx.ext.intersphinx",
      "sphinx.ext.viewcode">>

\* Mutant: the fallback names the directory without the parent step.
xml_dir_wrong_default == environ_get(environ, "DOXYGEN_XML_DIR", "xml")

\* Mutant: the lookup is served from the environment captured by the previous
\* execution in this process (a process-wide cache refreshed one load late).
xml_dir_stale ==
    IF Len(loads) > 1
    THEN environ_get(loads[Len(loads) - 1].environ, "DOXYGEN_XML_DIR", "../xml")
    ELSE environ_get(environ, "DOXYGEN_XML_DIR", "../xml")

xml_dir == environ_get(environ, "DOXYGEN_XML_DIR", "../xml")

breathe_projects == [k \in {"LanceDB"} |-> CurNs["xml_dir"]]

\* Mutant: the default project named in lower case.
breathe_default_project_lower == "lancedb"

breathe_default_project == "LanceDB"

templates_path == <<"_templates">>

\* Mutant: the directory of extracted XML is also excluded from the sources.
exclude_patterns_xml == <<"_build", "Thumbs.db", ".DS_Store", CurNs["xml_dir"]>>

exclude_patterns == <<"_build", "Thumbs.db", ".DS_Store">>

html_theme == "sphinx_rtd_theme"

html_static_path == <<"_static">>

html_theme_options ==
    [navigation_depth |-> 4,
     collapse_navigation |-> FALSE,
     sticky_navigation |-> TRUE,
     includehidden |-> TRUE]

\* Mutant: the base URL without the version segment.
intersphinx_mapping_unversioned ==
    [k \in {"python"} |-> <<"https://docs.python.org/", None>>]

intersphinx_mapping ==
    [k \in {"python"} |-> <<"https://docs.python.org/3", None>>]

\* ------------------------------------------------------------ statements

\* A module-level binding `name = value`: the name is (re)bound in the
\* namespace of the current execution and control moves to the next statement.
Bind(name, value, next) ==
    /\ loads' = [loads EXCEPT ![Len(loads)] =
                    [@ EXCEPT !.ns = (name :> value) @@ @,
                              !.writes = Append(@, name)]]
    /\ pc' = next

\* The documentation generator executes conf.py: a fresh namespace, control
\* at the first statement.
StartLoad ==
    /\ pc \in {"idle", "done"}
    /\ Len(loads) < MaxLoads
    /\ loads' = Append(loads, [environ |-> environ,
                               ns |-> EmptyNamespace,
                               writes |-> <<>>])
    /\ pc' = "import_os"
    /\ UNCHANGED environ

import_os ==
    /\ pc = "import_os"
    /\ Bind("os", "module os", "project")
    /\ UNCHANGED environ

Assign_project ==
    /\ pc = "project"
    /\ Bind("project", project, "copyright")
    /\ UNCHANGED environ

Assign_copyright ==
    /\ pc = "copyright"
    /\ Bind("copyright", copyright, "author")
    /\ UNCHANGED environ

Assign_author ==
    /\ pc = "author"
    /\ Bind("author", author, "release")
    /\ UNCHANGED environ

Assign_release ==
    /\ pc = "release"
    /\ Bind("release", release, "extensions")
    /\ UNCHANGED environ

Assign_extensions ==
    /\ pc = "extensions"
    /\ Bind("extensions", extensions, "xml_dir")
    /\ UNCHANGED environ

\* Mutant: `os.environ.setdefault('DOXYGEN_XML_DIR', '../xml')` - the lookup
\* stores the default in the environment when the variable is unset.
Assign_xml_dir_setdefault ==
    /\ pc = "xml_dir"
    /\ Bind("xml_dir", xml_dir, "breathe_projects")
    /\ environ' = IF \E e \in environ : e[1] = "DOXYGEN_XML_DIR"
                  THEN environ
                  ELSE environ \cup {<<"DOXYGEN_XML_DIR", "../xml">>}

Assign_xml_dir ==
    /\ pc = "xml_dir"
    /\ Bind("xml_dir", xml_dir, "breathe_projects")
    /\ UNCHANGED environ

Assign_breathe_projects ==
    /\ pc = "breathe_projects"
    /\ Bind("breathe_projects", breathe_projects, "breathe_default_project")
    /\ UNCHANGED environ

Assign_breathe_default_project ==
    /\ pc = "breathe_default_project"
    /\ Bind("breathe_default_project", breathe_default_project, "templates_path")
    /\ UNCHANGED environ

Assign_templates_path ==
    /\ pc = "templates_path"
    /\ Bind("templates_path", templates_path, "exclude_patterns")
    /\ UNCHANGED environ

Assign_exclude_patterns ==
    /\ pc = "exclude_patterns"
    /\ Bind("exclude_patterns", exclude_patterns, "html_theme")
    /\ UNCHANGED environ

Assign_html_theme ==
    /\ pc = "html_theme"
    /\ Bind("html_theme", html_theme, "html_static_path")
    /\ UNCHANGED environ

\* Mutant: a copy of the templates_path line left with its old target, so
\* templates_path is bound a second time and html_static_path never.
Assign_html_static_path_copied ==
    /\ pc = "html_static_path"
    /\ Bind("templates_path", html_static_path, "html_theme_options")
    /\ UNCHANGED environ

Assign_html_static_path ==
    /\ pc = "html_static_path"
    /\ Bind("html_static_path", html_static_path, "html_theme_options")
    /\ UNCHANGED environ

Assign_html_theme_options ==
    /\ pc = "html_theme_options"
    /\ Bind("html_theme_options", html_theme_options, "intersphinx_mapping")
    /\ UNCHANGED environ

Assign_intersphinx_mapping ==
    /\ pc = "intersphinx_mapping"
    /\ Bind("intersphinx_mapping", intersphinx_mapping, "done")
    /\ UNCHANGED environ

\* ------------------------------------------------- the build environment

\* The build driver exports DOXYGEN_XML_DIR before it runs the generator
\* (the CMake build of the comment above xml_dir).
putenv ==
    /\ pc \in {"idle", "done"}
    /\ \E v \in EnvValues :
          /\ <<"DOXYGEN_XML_DIR", v>> \notin environ
          /\ environ' = {e \in environ : e[1] # "DOXYGEN_XML_DIR"}
                            \cup {<<"DOXYGEN_XML_DIR", v>>}
    /\ UNCHANGED <<pc, loads>>

\* The variable is not exported (the manual build of the same comment).
unsetenv ==
    /\ pc \in {"idle", "done"}
    /\ \E e \in environ : e[1] = "DOXYGEN_XML_DIR"
    /\ environ' = {e \in environ : e[1] # "DOXYGEN_XML_DIR"}
    /\ UNCHANGED <<pc, loads>>

\* ---------------------------------------------------------- specification

\* One statement of an execution in progress.
LoadStep ==
    \/ import_os
    \/ Assign_project
    \/ Assign_copyright
    \/ Assign_author
    \/ Assign_release
    \/ Assign_extensions
    \/ Assign_xml_dir
    \/ Assign_breathe_projects
    \/ Assign_breathe_default_project
    \/ Assign_templates_path
    \/ Assign_exclude_patterns
    \/ Assign_html_theme
    \/ Assign_html_static_path
    \/ Assign_html_theme_options
    \/ Assign_intersphinx_mapping

Init ==
    /\ environ \in EnvStates
    /\ pc = "idle"
    /\ loads = <<>>

Next ==
    \/ StartLoad
    \/ LoadStep
    \/ putenv
    \/ unsetenv

Spec == Init /\ [][Next]_vars

\* ------------------------------------------------------------ properties

\* Count of the bindings of name among the bindings of one execution.
Writes(ws, name) == Cardinality({k \in 1..Len(ws) : ws[k] = name})

IsSet(env) == \E e \in env : e[1] = "DOXYGEN_XML_DIR"

CompletedLoads == {i \in 1..Len(loads) : Completed(i)}

\* C1: an execution that started with DOXYGEN_XML_DIR unset ends with
\* xml_dir = '../xml' and breathe_projects['LanceDB'] = '../xml'.
C1_DefaultWhenUnset ==
    \A i \in CompletedLoads :
        ~IsSet(loads[i].environ) =>
            /\ loads[i].ns["xml_dir"] = "../xml"
            /\ loads[i].ns["breathe_projects"]["LanceDB"] = "../xml"

C1_Witness ==
    \E i \in CompletedLoads :
        /\ loads[i].environ = {}
        /\ loads[i].ns["breathe_projects"]["LanceDB"] = "../xml"

\* C2: an execution that started with DOXYGEN_XML_DIR set to V ends with
\* breathe_projects['LanceDB'] = V, for every V: the empty string and values
\* padded with whitespace included, never replaced by the default.
C2_ExactValueWhenSet ==
    \A i \in CompletedLoads :
        \A e \in loads[i].environ :
            e[1] = "DOXYGEN_XML_DIR" =>
                loads[i].ns["breathe_projects"]["LanceDB"] = e[2]

C2_Witness ==
    /\ \E i \in CompletedLoads :
          /\ loads[i].environ = {<<"DOXYGEN_XML_DIR", "">>}
          /\ loads[i].ns["breathe_projects"]["LanceDB"] = ""
    /\ \E i \in CompletedLoads :
          /\ loads[i].environ = {<<"DOXYGEN_XML_DIR", " build/xml ">>}
          /\ loads[i].ns["breathe_projects"]["LanceDB"] = " build/xml "

\* C3: two executions in the same process that started with the same
\* environment end with the same names bound, every field of one equal to
\* the same field of the other.
C3_SameEnvironmentSameConfiguration ==
    \A i, j \in CompletedLoads :
        loads[i].environ = loads[j].environ =>
            /\ DOMAIN loads[i].ns = DOMAIN loads[j].ns
            /\ \A f \in Fields : loads[i].ns[f] = loads[j].ns[f]

\* Three executions, the first under another environment than the two that
\* follow it.
C3_Witness ==
    /\ Len(loads) = 3
    /\ pc = "done"
    /\ loads[1].environ # loads[2].environ
    /\ loads[2].environ = loads[3].environ
    /\ loads[2].ns["xml_dir"] = loads[3].ns["xml_dir"]

\* C4: after every execution the extensions list is non-empty and no entry
\* occurs in it twice.
C4_ExtensionsNonEmptyDistinct ==
    \A i \in CompletedLoads :
        LET ext == loads[i].ns["extensions"] IN
            /\ Len(ext) > 0
            /\ \A a, b \in 1..Len(ext) : ext[a] = ext[b] => a = b

C4_Witness ==
    \E i \in CompletedLoads :
        /\ Len(loads[i].ns["extensions"]) > 1
        /\ IsSet(loads[i].environ)

\* C5: after every execution project, copyright, author and release are
\* non-empty strings, with DOXYGEN_XML_DIR unset or set.
C5_IdentityNonEmpty ==
    \A i \in CompletedLoads :
        \A f \in {"project", "copyright", "author", "release"} :
            /\ loads[i].ns[f] \in STRING
            /\ loads[i].ns[f] # ""

C5_Witness ==
    /\ \E i \in CompletedLoads :
          IsSet(loads[i].environ) /\ loads[i].ns["author"] # ""
    /\ \E i \in CompletedLoads :
          ~IsSet(loads[i].environ) /\ loads[i].ns["author"] # ""

\* C6: after every execution intersphinx_mapping maps 'python' to the pair
\* ('https://docs.python.org/3', None), whatever the environment.
C6_IntersphinxPython ==
    \A i \in CompletedLoads :
        LET m == loads[i].ns["intersphinx_mapping"] IN
            /\ "python" \in DOMAIN m
            /\ Len(m["python"]) = 2
            /\ m["python"][1] = "https://docs.python.org/3"
            /\ m["python"][2] = None

C6_Witness ==
    /\ \E i \in CompletedLoads :
          IsSet(loads[i].environ)
              /\ "python" \in DOMAIN loads[i].ns["intersphinx_mapping"]
    /\ \E i \in CompletedLoads :
          ~IsSet(loads[i].environ)
              /\ "python" \in DOMAIN loads[i].ns["intersphinx_mapping"]

\* C7: write-once state.  Within one execution no field is bound twice and
\* at its end every field has been bound exactly once; once an execution has
\* ended, no step changes the value of any of its fields.
C7_WriteOnce ==
    /\ [](\A i \in 1..Len(loads) : \A f \in Fields :
             /\ Writes(loads[i].writes, f) <= 1
             /\ Completed(i) => Writes(loads[i].writes, f) = 1)
    /\ [][\A i \in CompletedLoads : \A f \in Fields :
             loads'[i].ns[f] = loads[i].ns[f]]_vars

\* A later execution has run to its end after an earlier one, whose fields
\* are still in place.
C7_Witness ==
    /\ Len(loads) >= 2
    /\ pc = "done"
    /\ \A f \in Fields : Writes(loads[1].writes, f) = 1
    /\ \A f \in Fields : Writes(loads[2].writes, f) = 1

\* C8: load is total and leaves the environment alone.  A started execution
\* can always take its next statement and no statement changes the
\* environment; the step that ends it leaves every field bound and the
\* environment the one the execution started with.
C8_TotalAndEnvironmentUnchanged ==
    /\ [](pc \notin {"idle", "done"} =>
             (ENABLED LoadStep) /\ environ = Cur.environ)
    /\ [][(pc # "done" /\ pc' = "done") =>
             /\ Fields \subseteq DOMAIN CurNs'
             /\ environ' = Cur'.environ
             /\ environ' = environ]_vars

C8_Witness ==
    /\ pc = "done"
    /\ Cur.environ = {}
    /\ environ = {}
    /\ Fields \subseteq DOMAIN CurNs

\* C9: the environment reaches only the source mapping.  Any two executions,
\* whatever their environments, end with equal values for every field other
\* than xml_dir and breathe_projects.
C9_EnvironmentOnlySourceMapping ==
    \A i, j \in CompletedLoads :
        \A f \in Fields \ {"xml_dir", "breathe_projects"} :
            loads[i].ns[f] = loads[j].ns[f]

C9_Witness ==
    \E i, j \in CompletedLoads :
        /\ loads[i].environ # loads[j].environ
        /\ loads[i].ns["xml_dir"] # loads[j].ns["xml_dir"]
        /\ loads[i].ns["exclude_patterns"] = loads[j].ns["exclude_patterns"]

\* C10: after every execution breathe_default_project is a key of
\* breathe_projects, and breathe_projects has the single key 'LanceDB', whose
\* value is xml_dir.
C10_DefaultProjectResolves ==
    \A i \in CompletedLoads :
        LET bp == loads[i].ns["breathe_projects"] IN
            /\ loads[i].ns["breathe_default_project"] \in DOMAIN bp
            /\ DOMAIN bp = {"LanceDB"}
            /\ bp["LanceDB"] = loads[i].ns["xml_dir"]

C10_Witness ==
    \E i \in CompletedLoads :
        /\ loads[i].ns["breathe_default_project"] = "LanceDB"
        /\ loads[i].ns["breathe_projects"]["LanceDB"] = " build/xml "
        /\ loads[i].ns["xml_dir"] = " build/xml "

====
